---- MODULE Spec2Model ----
(***************************************************************************)
(* A model of the UIO experiment: the length-prefixed stream framing of     *)
(* libuio (Packet, PartialPacket, StreamChannel) and the epoll-driven       *)
(* event loop of uio-server (Epoll, the client table of main).              *)
(*                                                                          *)
(* A panic of the Rust code ends the process: it is modelled as a status    *)
(* the process never leaves.                                                *)
(***************************************************************************)
EXTENDS Integers, Sequences, FiniteSets, TLC

\* ------------------------------------------------------------------ bounds

\* The number of write_packet calls on the modelled stream channel.
MaxPackets == 2
\* The payload lengths and descriptor counts of the packets the modelled
\* writer sends on it.
PayloadLens == {0, 1, 2}
FdCounts == {0, 1, 2}

\* ------------------------------------------------------- program constants

PACKET_HEADER_LEN == 4
\* 16 * 1024
MSG_BUF_SIZE == 16384
\* rustix::cmsg_space!(ScmRights(32)): room for 32 descriptors
SCM_RIGHTS_ROOM == 32
\* u16::MAX, the largest value try_into::<u16>() accepts
U16_MAX == 65535

\* ----------------------------------------------------------------- helpers

Min(a, b) == IF a < b THEN a ELSE b

\* Rust's slice[a..] (0-based, a <= len)
SliceFrom(s, a) == SubSeq(s, a + 1, Len(s))
\* Rust's slice[a..b] (0-based, a <= b <= len)
Slice(s, a, b) == SubSeq(s, a + 1, b)

RECURSIVE SeqsOfLen(_, _)
SeqsOfLen(S, n) ==
    IF n = 0 THEN {<<>>}
    ELSE {Append(s, x) : s \in SeqsOfLen(S, n - 1), x \in S}


IsPrefix(s, t) == Len(s) <= Len(t) /\ SubSeq(t, 1, Len(s)) = s

\* ------------------------------------------------------ u16 little endian

\* a truncating cast (len as u16) in place of the checked conversion
TryIntoU16_truncating(n) == [ok |-> TRUE, val |-> n % (U16_MAX + 1)]

\* usize -> u16 by try_into(): fails above u16::MAX
TryIntoU16(n) ==
    IF n <= U16_MAX THEN [ok |-> TRUE, val |-> n] ELSE [ok |-> FALSE, val |-> 0]

\* the bytes in big-endian order
u16_to_be_bytes(n) == <<n \div 256, n % 256>>

\* u16::to_le_bytes
u16_to_le_bytes(n) == <<n % 256, n \div 256>>

u16_from_le_bytes(b) == b[1] + 256 * b[2]

\* ------------------------------------------------------------ PartialPacket

Packet(data, fds) == [data |-> data, fds |-> fds]
PartialPacket(data, fds) == [data |-> data, fds |-> fds]
EmptyPacket == Packet(<<>>, <<>>)
\* PartialPacket::new
PartialPacket_new == PartialPacket(<<>>, <<>>)

\* the length field read from the first two buffered bytes
packet_length_of(data) == u16_from_le_bytes(Slice(data, 0, 2))
\* the descriptor count read from bytes 2..4
num_fds_of(data) == u16_from_le_bytes(Slice(data, 2, 4))


\* self.data[PACKET_HEADER_LEN .. PACKET_HEADER_LEN + packet_length]
packet_bytes(data, packet_length) ==
    Slice(data, PACKET_HEADER_LEN, PACKET_HEADER_LEN + packet_length)


\* self.data[PACKET_HEADER_LEN + packet_length ..]
remaining_bytes(data, packet_length) ==
    SliceFrom(data, PACKET_HEADER_LEN + packet_length)

\* the packet takes every pending descriptor
packet_fds_all(fds, num_fds) == fds

\* the descriptors left in self.fds after split_off(num_fds) and replace:
\* the packet gets the first num_fds
packet_fds(fds, num_fds) == Slice(fds, 0, num_fds)

\* the remaining descriptors keep the claimed ones
remaining_fds_keep(fds, num_fds) == fds

\* self.fds.split_off(num_fds): the descriptors from num_fds on
remaining_fds(fds, num_fds) == SliceFrom(fds, num_fds)

\* Whether the two slices of lines 52-53 are in range; Rust panics otherwise.
SlicesInRange(data, packet_length) ==
    PACKET_HEADER_LEN + packet_length <= Len(data)

\* try_drain_packet: kind "None" (no complete packet), "Some" (packet, with
\* the buffer left in rest) or "Panic" (a slice out of range).
try_drain_packet(pp) ==
    IF Len(pp.data) < PACKET_HEADER_LEN
    THEN [kind |-> "None", packet |-> EmptyPacket, rest |-> pp]
    ELSE LET packet_length == packet_length_of(pp.data) IN
         IF Len(pp.data) < packet_length
         THEN [kind |-> "None", packet |-> EmptyPacket, rest |-> pp]
         ELSE LET num_fds == num_fds_of(pp.data) IN
              IF Len(pp.fds) < num_fds
              THEN [kind |-> "None", packet |-> EmptyPacket, rest |-> pp]
              ELSE IF ~SlicesInRange(pp.data, packet_length)
              THEN [kind |-> "Panic", packet |-> EmptyPacket, rest |-> pp]
              ELSE [kind |-> "Some",
                    packet |-> Packet(packet_bytes(pp.data, packet_length),
                                      packet_fds(pp.fds, num_fds)),
                    rest |-> PartialPacket(remaining_bytes(pp.data, packet_length),
                                           remaining_fds(pp.fds, num_fds))]

\* the packet is put in front of the result
push_front(result, packet) == <<packet>> \o result

\* result.push(packet)
push(result, packet) == Append(result, packet)

RECURSIVE drain_loop(_, _)
drain_loop(pp, result) ==
    LET r == try_drain_packet(pp) IN
    IF r.kind = "Some" THEN drain_loop(r.rest, push(result, r.packet))
    ELSE [kind |-> IF r.kind = "Panic" THEN "Panic" ELSE "Ok",
          packets |-> result, rest |-> pp]

\* drain_packets: every complete packet of the buffer, and the buffer left
drain_packets(pp) == drain_loop(pp, <<>>)

\* ------------------------------------------------------------ StreamChannel


\* What one recvmsg call hands back: ret is -1 on an error (would-block
\* included) and the number of bytes otherwise; control is the list of
\* control messages, each of a kind with its descriptors.
RecvResult(ret, bytes, control, flags) ==
    [ret |-> ret, bytes |-> bytes, control |-> control, flags |-> flags]

ScmRights(fds) == [kind |-> "ScmRights", fds |-> fds]


\* Vec::extend / extend_from_slice
extend(fds, more) == fds \o more

\* the loop over control_buf.drain(): ok is FALSE when a control message
\* other than ScmRights makes the loop panic
RECURSIVE drain_control(_, _)
drain_control(fds, control) ==
    IF control = <<>> THEN [ok |-> TRUE, fds |-> fds]
    ELSE IF Head(control).kind = "ScmRights"
         THEN drain_control(extend(fds, Head(control).fds), Tail(control))
         ELSE [ok |-> FALSE, fds |-> fds]

\* no flag is tested
fatal_flag_untested(flags) == "none"

\* the three tests of read_packets on msg_flags, in their order: the flag
\* the function panics on, or "none"
fatal_flag(flags) ==
    IF "MSG_TRUNC" \in flags THEN "MSG_TRUNC"
    ELSE IF "MSG_ERRQUEUE" \in flags THEN "MSG_ERRQUEUE"
    ELSE IF "MSG_CTRUNC" \in flags THEN "MSG_CTRUNC"
    ELSE "none"

\* read_packets after num_bytes < 0 has been excluded: the received bytes
\* are appended, the flags tested, the control messages and the buffer
\* drained
read_packets_received(read_buffer, r) ==
    LET message == Slice(r.bytes, 0, r.ret)
        buf1 == PartialPacket(extend(read_buffer.data, message), read_buffer.fds)
    IN
    IF fatal_flag(r.flags) # "none"
    THEN [kind |-> "Panic", why |-> fatal_flag(r.flags), packets |-> <<>>,
          buf |-> buf1]
    ELSE
    LET c == drain_control(buf1.fds, r.control)
        buf2 == PartialPacket(buf1.data, c.fds)
    IN
    IF ~c.ok
    THEN [kind |-> "Panic", why |-> "ancillary", packets |-> <<>>, buf |-> buf2]
    ELSE
    LET d == drain_packets(buf2) IN
    IF d.kind = "Panic"
    THEN [kind |-> "Panic", why |-> "slice", packets |-> <<>>, buf |-> buf2]
    ELSE [kind |-> "Ok", why |-> "", packets |-> d.packets, buf |-> d.rest]

\* a receive of 0 bytes is reported as an error, as the record variant does
read_packets_eof_is_error(read_buffer, r) ==
    IF r.ret < 0
    THEN [kind |-> "Err", why |-> "recvmsg", packets |-> <<>>, buf |-> read_buffer]
    ELSE IF r.ret = 0
    THEN [kind |-> "Err", why |-> "The peer has performed an orderly shutdown.",
          packets |-> <<>>, buf |-> read_buffer]
    ELSE read_packets_received(read_buffer, r)

\* read_packets on the channel's read_buffer, given what its one recvmsg
\* call returned: kind "Err" (the I/O error is returned), "Panic" (why says
\* which) or "Ok" (packets returned); buf is the read_buffer afterwards.
read_packets(read_buffer, r) ==
    IF r.ret < 0
    THEN [kind |-> "Err", why |-> "recvmsg", packets |-> <<>>, buf |-> read_buffer]
    ELSE read_packets_received(read_buffer, r)


\* the 4 header bytes: u16 LE payload length, u16 LE descriptor count
header(len, nfds) == u16_to_le_bytes(len) \o u16_to_le_bytes(nfds)

\* the push succeeds whatever the number of descriptors
control_buf_push_unbounded(rights) == TRUE

\* SendAncillaryBuffer::push(ScmRights(rights)) into the control space of
\* 32 descriptors: FALSE when they do not fit
control_buf_push(rights) == Len(rights) <= SCM_RIGHTS_ROOM

\* What the kernel may answer to sendmsg on a non-blocking stream socket when
\* n bytes are offered: -1 (an error, would-block included), all n, or a
\* part of them (here the first byte, or all but the last).
SendmsgKinds == {"error", "all", "first", "allButLast"}
sendmsg_return(kind, n) ==
    CASE kind = "error" -> -1
      [] kind = "all" -> n
      [] kind = "first" -> 1
      [] kind = "allButLast" -> n - 1

\* the comparison is left out: a short send counts as a full one
all_sent_unchecked(num_sent_bytes, data_with_header) == TRUE

\* num_sent_bytes != data_with_header.len(), negated
all_sent(num_sent_bytes, data_with_header) ==
    num_sent_bytes = Len(data_with_header)

\* what write_packet handed to sendmsg: the bytes of its one IoSlice and the
\* descriptors of its control message; issued is FALSE when there was no call
NoSend == [issued |-> FALSE, slice |-> <<>>, rights |-> <<>>]
Send(slice, rights) == [issued |-> TRUE, slice |-> slice, rights |-> rights]

\* write_packet, given how the kernel answers its one sendmsg call.
\* kind "Panic" (why says which), "Err" or "Ok"; bytes and fds are what the
\* call passed to the peer, call what it was given.
write_packet(packet, sendmsg) ==
    LET len == TryIntoU16(Len(packet.data))
        nfds == TryIntoU16(Len(packet.fds))
    IN
    IF ~len.ok
    THEN [kind |-> "Panic", why |-> "Packet is too big!", bytes |-> <<>>, fds |-> <<>>,
          call |-> NoSend]
    ELSE IF ~nfds.ok
    THEN [kind |-> "Panic", why |-> "Packet has too many file descriptors!",
          bytes |-> <<>>, fds |-> <<>>, call |-> NoSend]
    ELSE
    LET data_with_header == header(len.val, nfds.val) \o packet.data IN
    IF ~control_buf_push(packet.fds)
    THEN [kind |-> "Panic", why |-> "Failed to send file descriptors.",
          bytes |-> <<>>, fds |-> <<>>, call |-> NoSend]
    ELSE
    LET num_sent_bytes == sendmsg_return(sendmsg, Len(data_with_header))
        call == Send(data_with_header, packet.fds)
    IN
    IF num_sent_bytes < 0
    THEN [kind |-> "Err", why |-> "sendmsg", bytes |-> <<>>, fds |-> <<>>,
          call |-> call]
    ELSE IF ~all_sent(num_sent_bytes, data_with_header)
    THEN [kind |-> "Panic", why |-> "Failed to transmit a packet within a single syscall!",
          bytes |-> Slice(data_with_header, 0, num_sent_bytes), fds |-> packet.fds,
          call |-> call]
    ELSE [kind |-> "Ok", why |-> "",
          bytes |-> Slice(data_with_header, 0, num_sent_bytes), fds |-> packet.fds,
          call |-> call]

\* ---------------------------------------------- one stream channel, end to end

VARIABLES
    tx,          \* the writing process: [status, writes, fdsUsed, last (the
                 \* outcome of the last write_packet), lastLen, lastNfds (its
                 \* packet's payload length and descriptor count), lastCall
                 \* (what it handed to sendmsg)]
    wire,        \* bytes sent by the writer and not yet received
    wireFds,     \* descriptor groups (one per sendmsg) sent and not yet received
    rx,          \* the reading process: [status, why]
    read_buffer, \* StreamChannel.read_buffer of the reader
    sent,        \* history: the packets whose write_packet returned Ok
    returned,    \* history: the packets read_packets returned, in order
    rcvdBytes,   \* history: the bytes recvmsg handed to the reader
    rcvdFds,     \* history: the descriptors recvmsg handed to the reader
    lastRead     \* the last read_packets call: [kind, eof (its receive
                 \* returned 0), packets, control, flags]

streamVars == <<tx, wire, wireFds, rx, read_buffer, sent, returned,
                rcvdBytes, rcvdFds, lastRead>>

\* the server process, its kernel objects and its peers
VARIABLES
    srv,       \* the server process: [status, why]
    clients,   \* main's HashMap<RawFd, Client>: raw_fd -> [fd, read_buffer, cid]
    interest,  \* the interest list of the epoll: descriptor number -> u64 data
    openFds,   \* the descriptor numbers open in the server process
    conns,     \* the connections made so far, by number (cid): the kernel's
               \* and the peer's side of each, and its history
    backlog,   \* the connections waiting on the listening socket, by cid
    events,    \* the messages of the last poll the loop has not handled yet
    lastWait,  \* the kernel events poll has just got from epoll_wait
    syscalls   \* the epoll_ctl and close calls of the last handled message

serverVars == <<srv, clients, interest, openFds, conns, backlog, events,
                lastWait, syscalls>>

VARIABLES
    rec,       \* the reading end of a record (seqpacket) channel: [status,
               \* why, read_buffer, returned, last]
    recQueue,  \* what the kernel has queued for it: the results of its next
               \* recvmsg calls
    recRcvd    \* the parts its recvmsg calls have received so far (history)

recordVars == <<rec, recQueue, recRcvd>>

VARIABLES
    path,      \* what is at the socket path: [kind, owner], kind "none",
               \* "file" or "socket", owner the server process that bound it
    dirExists, \* whether the directory of the socket path exists
    mains,     \* the server processes: where each is in main
    created    \* the socket descriptors created so far: [by, flags]

setupVars == <<path, dirExists, mains, created>>

vars == <<streamVars, serverVars, recordVars, setupVars>>

\* what an action of one part of the model leaves alone
exceptStream == <<serverVars, recordVars, setupVars>>
exceptServer == <<streamVars, recordVars, setupVars>>
exceptRecord == <<streamVars, serverVars, setupVars>>
exceptSetup == <<streamVars, serverVars, recordVars>>

\* The payload of the n-th write, of the given length: its bytes differ
\* from one another and from the other writes' (the framing never reads them).
PayloadOf(n, len) == [i \in 1..len |-> (n * 16 + i) % 256]
\* The descriptors a packet carries: nfds of the writer's open descriptors,
\* named by number, none attached to two packets.
FreshFds(used, nfds) == [i \in 1..nfds |-> used + i]

NoRead == [kind |-> "none", eof |-> FALSE, packets |-> <<>>, control |-> <<>>,
           flags |-> {}]

StreamInit ==
    /\ tx = [status |-> "running", writes |-> 0, fdsUsed |-> 0, last |-> "none",
             lastLen |-> 0, lastNfds |-> 0, lastCall |-> NoSend]
    /\ wire = <<>>
    /\ wireFds = <<>>
    /\ rx = [status |-> "running", why |-> ""]
    /\ read_buffer = PartialPacket_new
    /\ sent = <<>>
    /\ returned = <<>>
    /\ rcvdBytes = <<>>
    /\ rcvdFds = <<>>
    /\ lastRead = NoRead

\* The writer calls write_packet on a packet of len payload bytes and nfds
\* descriptors; the kernel answers the sendmsg call.
WritePacket(len, nfds, sendmsg) ==
    /\ tx.status = "running"
    /\ tx.writes < MaxPackets
    /\ LET p == Packet(PayloadOf(tx.writes, len), FreshFds(tx.fdsUsed, nfds))
           w == write_packet(p, sendmsg)
       IN
       /\ tx' = [status |-> IF w.kind = "Panic" THEN "panicked" ELSE "running",
                 writes |-> tx.writes + 1,
                 fdsUsed |-> tx.fdsUsed + nfds,
                 last |-> IF w.kind = "Panic" THEN w.why ELSE w.kind,
                 lastLen |-> len, lastNfds |-> nfds, lastCall |-> w.call]
       /\ wire' = wire \o w.bytes
       /\ wireFds' = IF w.fds = <<>> THEN wireFds ELSE Append(wireFds, w.fds)
       /\ sent' = IF w.kind = "Ok" THEN Append(sent, p) ELSE sent
    /\ UNCHANGED <<rx, read_buffer, returned, rcvdBytes, rcvdFds, lastRead>>
    /\ UNCHANGED exceptStream

\* the descriptors of a list of control messages or descriptor groups
RECURSIVE Flatten(_)
Flatten(groups) ==
    IF groups = <<>> THEN <<>> ELSE Head(groups) \o Flatten(Tail(groups))

RECURSIVE ControlOf(_)
ControlOf(groups) ==
    IF groups = <<>> THEN <<>>
    ELSE <<ScmRights(Head(groups))>> \o ControlOf(Tail(groups))

\* What recvmsg can return on a non-blocking stream socket whose receive
\* queue holds the bytes queue and the descriptor groups fdQueue: an error
\* when nothing is queued (would-block), 0 bytes when nothing is queued and
\* the peer is gone, else the next j queued bytes (at most MSG_BUF_SIZE)
\* with the next g queued descriptor groups, each as one ScmRights control
\* message. The split of the byte stream over the calls, and the call a
\* group arrives with, are left open.
recvmsg_results(queue, fdQueue, peerGone, flagSets) ==
    IF queue = <<>>
    THEN IF peerGone THEN {RecvResult(0, <<>>, <<>>, {})}
         ELSE {RecvResult(-1, <<>>, <<>>, {})}
    ELSE {RecvResult(j, Slice(queue, 0, j), ControlOf(Slice(fdQueue, 0, g)), fl) :
            j \in 1..Min(Len(queue), MSG_BUF_SIZE),
            g \in 0..Len(fdQueue),
            fl \in flagSets}

\* The reader calls read_packets once.
ReadPackets(r) ==
    /\ rx.status = "running"
    /\ LET res == read_packets(read_buffer, r)
           got == IF r.ret < 0 THEN 0 ELSE r.ret
       IN
       /\ wire' = SliceFrom(wire, got)
       /\ wireFds' = SliceFrom(wireFds, Len(r.control))
       /\ rcvdBytes' = rcvdBytes \o Slice(wire, 0, got)
       /\ rcvdFds' = rcvdFds \o Flatten(Slice(wireFds, 0, Len(r.control)))
       /\ read_buffer' = res.buf
       /\ returned' = returned \o res.packets
       /\ rx' = IF res.kind = "Panic"
                THEN [status |-> "panicked", why |-> res.why]
                ELSE rx
       /\ lastRead' = [kind |-> res.kind, eof |-> r.ret = 0, packets |-> res.packets,
                       control |-> r.control, flags |-> r.flags]
    /\ UNCHANGED <<tx, sent>>
    /\ UNCHANGED exceptStream

StreamNext ==
    \/ \E len \in PayloadLens, nfds \in FdCounts, sendmsg \in {"all", "error"} :
         WritePacket(len, nfds, sendmsg)
    \/ \E r \in recvmsg_results(wire, wireFds, FALSE, {{}}) : ReadPackets(r)

\* The writer alone: one write_packet call on a packet at the limits of the
\* header's 16-bit fields and of the control space, with every answer of the
\* kernel to sendmsg.
BoundaryLens == {0, 1, 2, U16_MAX - 1, U16_MAX, U16_MAX + 1, U16_MAX + 2, 100000}
BoundaryFdCounts == {0, 1, 2, SCM_RIGHTS_ROOM, SCM_RIGHTS_ROOM + 1, U16_MAX + 1}

WriteNext ==
    /\ tx.writes = 0
    /\ \E len \in BoundaryLens, nfds \in BoundaryFdCounts, sendmsg \in SendmsgKinds :
         WritePacket(len, nfds, sendmsg)

\* ------------------------------------------------------ the wire format, as
\* the claims state it

\* the frame of a packet: u16 LE payload length, u16 LE descriptor count,
\* the payload
FrameOf(p) ==
    <<Len(p.data) % 256, Len(p.data) \div 256,
      Len(p.fds) % 256, Len(p.fds) \div 256>> \o p.data

RECURSIVE FramesOf(_)
FramesOf(ps) == IF ps = <<>> THEN <<>> ELSE FrameOf(Head(ps)) \o FramesOf(Tail(ps))

RECURSIVE FdsOf(_)
FdsOf(ps) == IF ps = <<>> THEN <<>> ELSE Head(ps).fds \o FdsOf(Tail(ps))

FirstN(s, n) == SubSeq(s, 1, n)

\* the k first written packets have arrived whole, bytes and descriptors
ArrivedWhole(k) ==
    /\ k <= Len(sent)
    /\ Len(FramesOf(FirstN(sent, k))) <= Len(rcvdBytes)
    /\ Len(FdsOf(FirstN(sent, k))) <= Len(rcvdFds)

\* the number of written packets that have arrived whole
CompleteFrames ==
    CHOOSE k \in 0..Len(sent) :
        ArrivedWhole(k) /\ \A m \in (k + 1)..Len(sent) : ~ArrivedWhole(m)

\* read_packets ended in the out-of-range slice of try_drain_packet
DrainPanicked == rx.status = "panicked" /\ rx.why = "slice"

\* ------------------------------------------------------------ the requests

\* little-endian unsigned integer of a byte sequence
RECURSIVE le_bytes_to_nat(_)
le_bytes_to_nat(b) ==
    IF b = <<>> THEN 0 ELSE Head(b) + 256 * le_bytes_to_nat(Tail(b))

RECURSIVE nat_to_le_bytes(_, _)
nat_to_le_bytes(n, width) ==
    IF width = 0 THEN <<>> ELSE <<n % 256>> \o nat_to_le_bytes(n \div 256, width - 1)

\* bincode::serialize(&RequestMsg::Announce(AnnounceMsg { name })): the
\* variant index 0 as u32 LE, the length of the name as u64 LE, its bytes
serialize_announce(name) ==
    nat_to_le_bytes(0, 4) \o nat_to_le_bytes(Len(name), 8) \o name

\* Packet::try_into_request: bincode::deserialize of the payload as a
\* RequestMsg (bytes after the value are allowed). Names are modelled with
\* one-byte characters: a byte above 127 is not valid UTF-8.
try_into_request(packet) ==
    LET data == packet.data IN
    IF Len(data) < 4 THEN [ok |-> FALSE, name |-> <<>>, fds |-> <<>>]
    ELSE IF le_bytes_to_nat(Slice(data, 0, 4)) # 0
    THEN [ok |-> FALSE, name |-> <<>>, fds |-> <<>>]
    ELSE IF Len(data) < 12 THEN [ok |-> FALSE, name |-> <<>>, fds |-> <<>>]
    ELSE LET n == le_bytes_to_nat(Slice(data, 4, 12)) IN
         IF Len(data) < 12 + n THEN [ok |-> FALSE, name |-> <<>>, fds |-> <<>>]
         ELSE LET name == Slice(data, 12, 12 + n) IN
              IF \E i \in 1..n : name[i] > 127
              THEN [ok |-> FALSE, name |-> <<>>, fds |-> <<>>]
              ELSE [ok |-> TRUE, name |-> name, fds |-> packet.fds]

\* the loop of handle_ready_client over the packets read: the packets
\* handled, and whether a payload that is no request made the loop panic
RECURSIVE handle_packets(_, _)
handle_packets(packets, handled) ==
    IF packets = <<>> THEN [ok |-> TRUE, handled |-> handled]
    ELSE IF ~try_into_request(Head(packets)).ok
         THEN [ok |-> FALSE, handled |-> handled]
         ELSE handle_packets(Tail(packets), Append(handled, Head(packets)))

\* handle_ready_client on a client whose channel has the given read_buffer,
\* given what the recvmsg call of read_packets returns: status "Ok" or
\* "Panic" (why says which), the read_buffer afterwards, the packets handled.
handle_ready_client(client_read_buffer, r) ==
    LET res == read_packets(client_read_buffer, r) IN
    IF res.kind = "Err"
    THEN [status |-> "Panic", why |-> "Failed to read message!",
          buf |-> res.buf, handled |-> <<>>]
    ELSE IF res.kind = "Panic"
    THEN [status |-> "Panic", why |-> res.why, buf |-> res.buf, handled |-> <<>>]
    ELSE LET h == handle_packets(res.packets, <<>>) IN
         IF ~h.ok
         THEN [status |-> "Panic", why |-> "Failed to parse packet as request!",
               buf |-> res.buf, handled |-> h.handled]
         ELSE [status |-> "Ok", why |-> "", buf |-> res.buf, handled |-> h.handled]

\* -------------------------------------------------------------------- Epoll

\* the keys of the server's epoll: PollId::Socket and PollId::Client(raw_fd)
PollId_Socket == [kind |-> "Socket", fd |-> 0]
PollId_Client(raw_fd) == [kind |-> "Client", fd |-> raw_fd]

\* PollId -> u64 and back. poll.rs is not among the sources: the conversion
\* is modelled as the round-trip law of the specification (section 3) asks,
\* with a failure for a number that is no key.
PollId_into_u64(key) == IF key.kind = "Socket" THEN 0 ELSE key.fd + 1
PollId_try_from_u64(n) ==
    IF n = 0 THEN [ok |-> TRUE, key |-> PollId_Socket]
    ELSE IF n > 0 THEN [ok |-> TRUE, key |-> PollId_Client(n - 1)]
    ELSE [ok |-> FALSE, key |-> PollId_Socket]

Ready(key) == [msg |-> "Ready", key |-> key]
Broken(key) == [msg |-> "Broken", key |-> key]
Hup(key) == [msg |-> "Hup", key |-> key]

\* Epoll::add: the events every descriptor is registered for
EPOLL_ADD_FLAGS == {"EPOLLIN", "EPOLLOUT", "EPOLLERR"}

\* what epoll_wait reports of the conditions of a descriptor: those it was
\* registered for, and error and hang-up, which are always reported
Reported(conditions) ==
    conditions \cap (EPOLL_ADD_FLAGS \cup {"EPOLLERR", "EPOLLHUP"})

\* any event is taken for readiness to read
poll_event_any_flag(event) ==
    LET k == PollId_try_from_u64(event.u64) IN
    IF ~k.ok THEN [ok |-> FALSE, msgs |-> <<>>]
    ELSE IF event.flags # {} THEN [ok |-> TRUE, msgs |-> <<Ready(k.key)>>]
    ELSE [ok |-> TRUE, msgs |-> <<>>]

\* the body of the loop of poll for one kernel event: the messages pushed
\* (ok is FALSE when the key conversion panics)
poll_event(event) ==
    LET k == PollId_try_from_u64(event.u64) IN
    IF ~k.ok THEN [ok |-> FALSE, msgs |-> <<>>]
    ELSE IF "EPOLLIN" \in event.flags THEN [ok |-> TRUE, msgs |-> <<Ready(k.key)>>]
    ELSE IF "EPOLLIN" \in event.flags THEN [ok |-> TRUE, msgs |-> <<Broken(k.key)>>]
    ELSE IF "EPOLLIN" \in event.flags THEN [ok |-> TRUE, msgs |-> <<Hup(k.key)>>]
    ELSE [ok |-> TRUE, msgs |-> <<>>]

\* poll, given the events epoll_wait returned
RECURSIVE poll(_)
poll(event_list) ==
    IF event_list = <<>> THEN [ok |-> TRUE, msgs |-> <<>>]
    ELSE LET first == poll_event(Head(event_list))
             rest == poll(Tail(event_list))
         IN [ok |-> first.ok /\ rest.ok, msgs |-> first.msgs \o rest.msgs]

\* --------------------------------------------------------- the event loop

\* The bounds of the server model: the connections ever made, the
\* descriptor numbers the kernel can give to accepted connections, and the
\* write_packet calls of all peers together.
MaxConns == 2
MaxClientFds == 2
MaxRequests == 2

\* stdin, stdout, stderr; the listening socket and the epoll are opened
\* next, in this order, and get the lowest free numbers
StdFds == {0, 1, 2}
SocketFd == Cardinality(StdFds)
EpollFd == SocketFd + 1
ClientFdNumbers == (EpollFd + 1)..(EpollFd + MaxClientFds)

\* Client::new(channel), with the connection it serves (history)
Client(fd, cid) == [fd |-> fd, read_buffer |-> PartialPacket_new, cid |-> cid]

Without(f, x) == [y \in DOMAIN f \ {x} |-> f[y]]
With(f, x, v) == [y \in DOMAIN f \cup {x} |-> IF y = x THEN v ELSE f[y]]

\* the state main's loop works on
ServerState(cl, int, open) == [clients |-> cl, interest |-> int, openFds |-> open]

Outcome(status, why, st, calls) ==
    [status |-> status, why |-> why, clients |-> st.clients,
     interest |-> st.interest, openFds |-> st.openFds, syscalls |-> calls]

Sys(call, fd) == [call |-> call, fd |-> fd]

\* the accepted client is inserted into the table without epoll.add
on_ready_socket_unregistered(st, accepted) ==
    IF ~accepted.ok
    THEN Outcome("Panic", "Failed to accept incoming channel.", st, <<>>)
    ELSE Outcome("Ok", "",
                 ServerState(With(st.clients, accepted.fd,
                                  Client(accepted.fd, accepted.cid)),
                             st.interest, st.openFds \cup {accepted.fd}),
                 <<>>)

\* the arm of Ready(PollId::Socket): accept, epoll.add, clients.insert and
\* the assertion. accepted is the answer of accept4: ok with the descriptor
\* number and the connection, or an error.
on_ready_socket(st, accepted) ==
    IF ~accepted.ok
    THEN Outcome("Panic", "Failed to accept incoming channel.", st, <<>>)
    ELSE
    LET raw_fd == accepted.fd
        client == Client(raw_fd, accepted.cid)
        opened == ServerState(st.clients, st.interest, st.openFds \cup {raw_fd})
    IN
    IF raw_fd \in DOMAIN st.interest
    THEN Outcome("Panic", "Failed to register a new client with the epoll!",
                 opened, <<Sys("epoll_ctl_add_failed", raw_fd)>>)
    ELSE
    LET added == ServerState(st.clients,
                             With(st.interest, raw_fd,
                                  PollId_into_u64(PollId_Client(raw_fd))),
                             opened.openFds)
        old_client_using_fd == raw_fd \in DOMAIN st.clients
        inserted == ServerState(With(st.clients, raw_fd, client),
                                added.interest, added.openFds)
    IN
    IF old_client_using_fd
    THEN Outcome("Panic", "assertion failed: old_client_using_fd.is_none()",
                 inserted, <<Sys("epoll_ctl_add", raw_fd)>>)
    ELSE Outcome("Ok", "", inserted, <<Sys("epoll_ctl_add", raw_fd)>>)

\* the entry stays in the table while its descriptor is deregistered and closed
on_broken_client_keeps_entry(st, raw_fd) ==
    IF raw_fd \notin DOMAIN st.clients THEN Outcome("Ok", "", st, <<>>)
    ELSE Outcome("Ok", "",
                 ServerState(st.clients, Without(st.interest, raw_fd),
                             st.openFds \ {raw_fd}),
                 <<Sys("epoll_ctl_del", raw_fd), Sys("close", raw_fd)>>)

\* the client is dropped without epoll.delete
on_broken_client_no_delete(st, raw_fd) ==
    IF raw_fd \notin DOMAIN st.clients THEN Outcome("Ok", "", st, <<>>)
    ELSE Outcome("Ok", "",
                 ServerState(Without(st.clients, raw_fd),
                             Without(st.interest, raw_fd),
                             st.openFds \ {raw_fd}),
                 <<Sys("close", raw_fd)>>)

\* the arm of Broken(PollId::Client(raw_fd)) | Hup(PollId::Client(raw_fd)):
\* clients.remove, epoll.delete, and the drop of the removed client, which
\* closes its descriptor (the kernel takes a closed descriptor off the
\* interest list)
on_broken_client(st, raw_fd) ==
    IF raw_fd \notin DOMAIN st.clients THEN Outcome("Ok", "", st, <<>>)
    ELSE
    LET client == st.clients[raw_fd]
        removed == ServerState(Without(st.clients, raw_fd), st.interest, st.openFds)
    IN
    IF client.fd \notin DOMAIN st.interest
    THEN Outcome("Panic", "Failed to remove a client from the epoll!",
                 ServerState(removed.clients, removed.interest,
                             removed.openFds \ {client.fd}),
                 <<Sys("epoll_ctl_del_failed", client.fd), Sys("close", client.fd)>>)
    ELSE Outcome("Ok", "",
                 ServerState(removed.clients, Without(removed.interest, client.fd),
                             removed.openFds \ {client.fd}),
                 <<Sys("epoll_ctl_del", client.fd), Sys("close", client.fd)>>)

\* ------------------------------------------------ the kernel and the peers

NewConn == [state |-> "queued", fd |-> 0, peer |-> "running",
            wire |-> <<>>, writes |-> 0, sent |-> <<>>, dispatched |-> <<>>,
            split |-> FALSE]

\* the accepted connection whose server end is the open descriptor fd
ConnsOfFd(fd) == {c \in 1..Len(conns) : conns[c].state = "open" /\ conns[c].fd = fd}
ConnOfFd(fd) == CHOOSE c \in ConnsOfFd(fd) : TRUE

\* The events the kernel reports for a registered descriptor (add asks for
\* EPOLLIN | EPOLLOUT | EPOLLERR; EPOLLHUP and EPOLLERR are always reported):
\* the listening socket is readable while a connection waits; a connection
\* is writable, readable while bytes are queued or the peer is gone, hung
\* up when the peer is gone, in error when the peer has reset it.
KernelFlags(fd) ==
    IF fd = SocketFd
    THEN Reported(IF backlog # <<>> THEN {"EPOLLIN"} ELSE {})
    ELSE IF ConnsOfFd(fd) = {} THEN {}
    ELSE LET c == conns[ConnOfFd(fd)] IN
         Reported(
           {"EPOLLOUT"}
           \cup (IF c.wire # <<>> \/ c.peer # "running" THEN {"EPOLLIN"} ELSE {})
           \cup (IF c.peer # "running" THEN {"EPOLLHUP"} ELSE {})
           \cup (IF c.peer = "reset" THEN {"EPOLLERR"} ELSE {}))

KernelEvent(fd) == [flags |-> KernelFlags(fd), u64 |-> interest[fd]]

ReadyFds == {fd \in DOMAIN interest : KernelFlags(fd) # {}}

\* array length of event_list in poll
EPOLL_MAX_EVENTS == 8

\* what epoll_wait can return: the ready descriptors' events (at most 8),
\* in any order
WaitResults ==
    {s \in SeqsOfLen(ReadyFds, Min(Cardinality(ReadyFds), EPOLL_MAX_EVENTS)) :
        \A i, j \in 1..Len(s) : s[i] = s[j] => i = j}

RECURSIVE EventsOf(_)
EventsOf(fds) ==
    IF fds = <<>> THEN <<>> ELSE <<KernelEvent(Head(fds))>> \o EventsOf(Tail(fds))

\* The lengths of the short reads of the server's sockets: a read returns
\* all the queued bytes or the first PACKET_HEADER_LEN of them.
RecvLens == {PACKET_HEADER_LEN}

\* what recvmsg returns on the server's descriptor fd
RecvResultsOn(fd) ==
    IF fd \notin openFds \/ ConnsOfFd(fd) = {}
    THEN {RecvResult(-1, <<>>, <<>>, {})}
    ELSE LET c == conns[ConnOfFd(fd)] IN
         IF c.peer = "reset" THEN {RecvResult(-1, <<>>, <<>>, {})}
         ELSE {r \in recvmsg_results(c.wire, <<>>, c.peer # "running", {{}}) :
                 r.ret <= 0 \/ r.ret = Len(c.wire) \/ r.ret \in RecvLens}

\* what accept4 returns on the listening socket: an error when no
\* connection waits (would-block) or no descriptor number is free, else the
\* first waiting connection under any free descriptor number
AcceptResults ==
    IF backlog = <<>> \/ ClientFdNumbers \ openFds = {}
    THEN {[ok |-> FALSE, fd |-> 0, cid |-> 0]}
    ELSE {[ok |-> TRUE, fd |-> fd, cid |-> Head(backlog)] :
            fd \in ClientFdNumbers \ openFds}

ServerInit ==
    /\ srv = [status |-> "running", why |-> ""]
    /\ clients = <<>>
    /\ interest = (SocketFd :> PollId_into_u64(PollId_Socket))
    /\ openFds = {SocketFd, EpollFd}
    /\ conns = <<>>
    /\ backlog = <<>>
    /\ events = <<>>
    /\ lastWait = <<>>
    /\ syscalls = <<>>


TotalWrites == LET RECURSIVE Sum(_)
                   Sum(i) == IF i = 0 THEN 0 ELSE conns[i].writes + Sum(i - 1)
               IN Sum(Len(conns))

\* A peer connects to the socket path.
PeerConnect ==
    /\ UNCHANGED exceptServer
    /\ srv.status = "running"
    /\ Len(conns) < MaxConns
    /\ conns' = Append(conns, NewConn)
    /\ backlog' = Append(backlog, Len(conns) + 1)
    /\ UNCHANGED <<srv, clients, interest, openFds, events, lastWait, syscalls>>

\* The packet a peer writes: an Announce request whose name tells the
\* write, or a payload that is no request. Neither carries descriptors.
RequestPacket(kind, n) ==
    Packet(IF kind = "announce" THEN serialize_announce(<<65 + n>>) ELSE <<255>>,
           <<>>)

\* The peer of connection c calls write_packet.
PeerWrite(c, kind) ==
    /\ UNCHANGED exceptServer
    /\ srv.status = "running"
    /\ conns[c].peer = "running"
    /\ conns[c].state # "closed"
    /\ TotalWrites < MaxRequests
    /\ LET conn == conns[c]
           p == RequestPacket(kind, conn.writes)
           w == write_packet(p, "all")
       IN conns' = [conns EXCEPT ![c] =
            [conn EXCEPT !.wire = conn.wire \o w.bytes,
                         !.writes = conn.writes + 1,
                         !.sent = IF w.kind = "Ok" THEN Append(conn.sent, p)
                                  ELSE conn.sent,
                         !.peer = IF w.kind = "Panic" THEN "panicked" ELSE "running"]]
    /\ UNCHANGED <<srv, clients, interest, openFds, backlog, events, lastWait, syscalls>>

\* The peer of connection c goes away: it closes its end ("closed"), or the
\* connection is reset ("reset") and the socket has an error pending.
PeerClose(c, how) ==
    /\ UNCHANGED exceptServer
    /\ srv.status = "running"
    /\ conns[c].peer = "running"
    /\ conns[c].state # "closed"
    /\ conns' = [conns EXCEPT ![c].peer = how]
    /\ UNCHANGED <<srv, clients, interest, openFds, backlog, events, lastWait, syscalls>>

\* epoll.poll() at the top of the loop: it blocks until a registered
\* descriptor is ready.
Poll ==
    /\ UNCHANGED exceptServer
    /\ srv.status = "running"
    /\ events = <<>>
    /\ ReadyFds # {}
    /\ \E fds \in WaitResults :
         LET event_list == EventsOf(fds)
             res == poll(event_list)
         IN /\ lastWait' = event_list
            /\ events' = IF res.ok THEN res.msgs ELSE <<>>
            /\ srv' = IF res.ok THEN srv
                      ELSE [status |-> "panicked",
                            why |-> "Failed to convert an u64 back to a poll key."]
    /\ syscalls' = <<>>
    /\ UNCHANGED <<clients, interest, openFds, conns, backlog>>

\* the server's descriptors closed by a step close the connections' ends
CloseConns(cs, open) ==
    [c \in 1..Len(cs) |->
        IF cs[c].state = "open" /\ cs[c].fd \notin open
        THEN [cs[c] EXCEPT !.state = "closed"] ELSE cs[c]]

Apply(out) ==
    /\ clients' = out.clients
    /\ interest' = out.interest
    /\ openFds' = out.openFds
    /\ syscalls' = out.syscalls
    /\ srv' = IF out.status = "Panic"
              THEN [status |-> "panicked", why |-> out.why] ELSE srv

\* One iteration of `for event in events`: the match on the message.
HandleEvent ==
    /\ UNCHANGED exceptServer
    /\ srv.status = "running"
    /\ events # <<>>
    /\ events' = Tail(events)
    /\ lastWait' = <<>>
    /\ LET event == Head(events)
           st == ServerState(clients, interest, openFds)
       IN
       IF event.msg = "Ready" /\ event.key.kind = "Client"
       THEN IF event.key.fd \notin DOMAIN clients
            THEN UNCHANGED <<srv, clients, interest, openFds, conns, backlog>>
                 /\ syscalls' = <<>>
            ELSE \E r \in RecvResultsOn(clients[event.key.fd].fd) :
                   LET client == clients[event.key.fd]
                       h == handle_ready_client(client.read_buffer, r)
                       got == IF r.ret < 0 THEN 0 ELSE r.ret
                   IN /\ clients' = [clients EXCEPT
                                       ![event.key.fd].read_buffer = h.buf]
                      /\ srv' = IF h.status = "Panic"
                                THEN [status |-> "panicked", why |-> h.why]
                                ELSE srv
                      /\ conns' = IF ConnsOfFd(client.fd) = {} THEN conns
                                  ELSE LET c == ConnOfFd(client.fd) IN
                                    [conns EXCEPT ![c] =
                                      [conns[c] EXCEPT
                                        !.wire = SliceFrom(conns[c].wire, got),
                                        !.split = @ \/ h.buf.data # <<>>,
                                        !.dispatched = @ \o h.handled]]
                      /\ syscalls' = <<>>
                      /\ UNCHANGED <<interest, openFds, backlog>>
       ELSE IF event.msg = "Ready"
       THEN \E accepted \in AcceptResults :
              LET out == on_ready_socket(st, accepted) IN
              /\ Apply(out)
              /\ backlog' = IF accepted.ok THEN Tail(backlog) ELSE backlog
              /\ conns' = IF accepted.ok
                          THEN CloseConns([conns EXCEPT
                                 ![accepted.cid].state = "open",
                                 ![accepted.cid].fd = accepted.fd], out.openFds)
                          ELSE conns
       ELSE IF event.key.kind = "Client"
       THEN LET out == on_broken_client(st, event.key.fd) IN
            /\ Apply(out)
            /\ conns' = CloseConns(conns, out.openFds)
            /\ UNCHANGED backlog
       ELSE /\ srv' = [status |-> "panicked", why |-> "Socket broken!"]
            /\ syscalls' = <<>>
            /\ UNCHANGED <<clients, interest, openFds, conns, backlog>>

PeerNext ==
    \/ PeerConnect
    \/ \E c \in 1..Len(conns), kind \in {"announce", "malformed"} :
         PeerWrite(c, kind)
    \/ \E c \in 1..Len(conns), how \in {"closed", "reset"} : PeerClose(c, how)

\* The server as written: the loop handles what poll returns.
ServerNext == PeerNext \/ Poll \/ HandleEvent

\* The loop of main against every message poll's return type admits: a
\* batch of one message on any key, whatever the kernel events were.
Keys == {PollId_Socket} \cup {PollId_Client(fd) : fd \in ClientFdNumbers}
Messages == {Ready(k) : k \in Keys} \cup {Broken(k) : k \in Keys}
            \cup {Hup(k) : k \in Keys}

AnyMessage ==
    /\ UNCHANGED exceptServer
    /\ srv.status = "running"
    /\ events = <<>>
    /\ \E m \in Messages : events' = <<m>>
    /\ lastWait' = <<>>
    /\ syscalls' = <<>>
    /\ UNCHANGED <<srv, clients, interest, openFds, conns, backlog>>

LoopNext == PeerNext \/ AnyMessage \/ HandleEvent

\* ------------------------------------------- the record (seqpacket) channel

\* SeqPacketChannel::read_packet, given what its recvmsg call returns: kind
\* "Err" or "Panic" (why says which), the packet returned if any, and the
\* read_buffer afterwards. No path of the function stores the bytes
\* received or returns a packet: past the flag tests it ends in
\* unimplemented!().
seq_read_packet(seq_read_buffer, r) ==
    IF r.ret < 0
    THEN [kind |-> "Err", why |-> "recvmsg", packets |-> <<>>,
          buf |-> seq_read_buffer]
    ELSE IF r.ret = 0
    THEN [kind |-> "Err", why |-> "The peer has performed an orderly shutdown.",
          packets |-> <<>>, buf |-> seq_read_buffer]
    ELSE IF "MSG_TRUNC" \in r.flags
    THEN [kind |-> "Panic", why |-> "MSG_TRUNC", packets |-> <<>>,
          buf |-> seq_read_buffer]
    ELSE IF "MSG_CTRUNC" \in r.flags
    THEN [kind |-> "Panic", why |-> "MSG_CTRUNC", packets |-> <<>>,
          buf |-> seq_read_buffer]
    ELSE IF "MSG_ERRQUEUE" \in r.flags
    THEN [kind |-> "Panic", why |-> "MSG_ERRQUEUE", packets |-> <<>>,
          buf |-> seq_read_buffer]
    ELSE [kind |-> "Panic", why |-> "not implemented", packets |-> <<>>,
          buf |-> seq_read_buffer]

\* Packet::empty() of the record channel: bytes only
SeqPacket_empty == [data |-> <<>>]

RecordInit ==
    /\ rec = [status |-> "running", why |-> "", read_buffer |-> SeqPacket_empty,
              returned |-> <<>>, last |-> "none"]
    /\ recQueue = <<>>
    /\ recRcvd = <<>>

\* The flags recvmsg can leave in msg_flags on the record channel: the end
\* of a record, and the three the function treats as fatal.
RecordFlagSets ==
    {{}, {"MSG_EOR"}, {"MSG_TRUNC"}, {"MSG_EOR", "MSG_TRUNC"}, {"MSG_CTRUNC"},
     {"MSG_EOR", "MSG_CTRUNC"}, {"MSG_ERRQUEUE"}}

\* The peer sends a part of a record, or all of one: the kernel will hand
\* it to one recvmsg call, with the flags it sets.
RecordSend(len, flags) ==
    /\ UNCHANGED exceptRecord
    /\ rec.status = "running"
    /\ Len(recQueue) + Len(recRcvd) < MaxPackets + 1
    /\ recQueue' = Append(recQueue,
          RecvResult(len, PayloadOf(Len(recQueue) + Len(recRcvd), len), <<>>, flags))
    /\ UNCHANGED <<rec, recRcvd>>

\* what recvmsg returns on the record channel: the next queued part, or
\* the would-block error when nothing is queued
record_recvmsg_results(queue) ==
    IF queue = <<>> THEN {RecvResult(-1, <<>>, <<>>, {})} ELSE {Head(queue)}

\* The reader calls read_packet once.
RecordRead(r) ==
    /\ UNCHANGED exceptRecord
    /\ rec.status = "running"
    /\ LET res == seq_read_packet(rec.read_buffer, r) IN
       rec' = [status |-> IF res.kind = "Panic" THEN "panicked" ELSE "running",
               why |-> IF res.kind \in {"Panic", "Err"} THEN res.why ELSE rec.why,
               read_buffer |-> res.buf,
               returned |-> rec.returned \o res.packets,
               last |-> res.kind]
    /\ recQueue' = IF r.ret > 0 THEN Tail(recQueue) ELSE recQueue
    /\ recRcvd' = IF r.ret > 0 THEN Append(recRcvd, r) ELSE recRcvd

RecordNext ==
    \/ \E len \in PayloadLens \ {0}, flags \in RecordFlagSets : RecordSend(len, flags)
    \/ \E r \in record_recvmsg_results(recQueue) : RecordRead(r)

\* ------------------------------------------ start-up and the socket path

\* the server processes started on the one socket path
MaxServers == 2

\* the values of <fcntl.h> the calls pass
FD_CLOEXEC == 1
O_NONBLOCK == 2048
O_CLOEXEC == 524288

\* fcntl(fd, F_SETFD, arg): the descriptor flags become the FD_CLOEXEC bit
\* of arg, the only descriptor flag there is
fcntl_F_SETFD(flags, arg) ==
    (flags \ {"FD_CLOEXEC"})
    \cup (IF (arg \div FD_CLOEXEC) % 2 = 1 THEN {"FD_CLOEXEC"} ELSE {})

\* fcntl(fd, F_SETFL, arg): of the status flags, O_NONBLOCK becomes that
\* bit of arg
fcntl_F_SETFL(flags, arg) ==
    (flags \ {"O_NONBLOCK"})
    \cup (IF (arg \div O_NONBLOCK) % 2 = 1 THEN {"O_NONBLOCK"} ELSE {})

\* socket(AF_UNIX, type, 0) without type flags: neither flag is set
socket_flags == {}

\* StreamSocket::open and StreamChannel::open: socket, then
\* fcntl_setfd(FdFlags::CLOEXEC) and fcntl_setfl(OFlags::NONBLOCK)
stream_open_flags ==
    fcntl_F_SETFL(fcntl_F_SETFD(socket_flags, FD_CLOEXEC), O_NONBLOCK)

\* set_cloexec: fcntl(fd, F_SETFD, O_CLOEXEC)
set_cloexec(flags) == fcntl_F_SETFD(flags, O_CLOEXEC)

\* SeqPacketSocket::open: socket, then set_cloexec and
\* fcntl(F_SETFL, O_NONBLOCK)
seq_open_flags == fcntl_F_SETFL(set_cloexec(socket_flags), O_NONBLOCK)

\* accept4 and accept_with with NONBLOCK | CLOEXEC: both flags are set
accept_flags == {"O_NONBLOCK", "FD_CLOEXEC"}

Descriptor(by, flags) == [by |-> by, flags |-> flags]

NoEntry == [kind |-> "none", owner |-> 0]

SetupInit ==
    /\ path = NoEntry
    /\ dirExists = FALSE
    /\ mains = [i \in 1..MaxServers |-> "start"]
    /\ created = {}

\* Something was left at the socket path before a server starts: a file,
\* or the socket of a server that is gone.
Litter(kind) ==
    /\ UNCHANGED exceptSetup
    /\ path = NoEntry
    /\ \A i \in 1..MaxServers : mains[i] = "start"
    /\ path' = [kind |-> kind, owner |-> 0]
    /\ dirExists' = TRUE
    /\ UNCHANGED <<mains, created>>

\* std::fs::remove_file on the socket path: it fails when nothing is there
remove_file(entry) ==
    IF entry.kind = "none" THEN [ok |-> FALSE, entry |-> entry]
    ELSE [ok |-> TRUE, entry |-> NoEntry]

\* main: if path.exists() { remove_file(path).expect(..) }
FreePath(i) ==
    /\ UNCHANGED exceptSetup
    /\ mains[i] = "start"
    /\ path' = IF path.kind # "none" THEN remove_file(path).entry ELSE path
    /\ mains' = [mains EXCEPT ![i] = "freed"]
    /\ UNCHANGED <<dirExists, created>>

\* main: if !dir.exists() { create_dir_all(dir).expect(..) }
EnsureDir(i, made) ==
    /\ UNCHANGED exceptSetup
    /\ mains[i] = "freed"
    /\ dirExists' = (dirExists \/ made)
    /\ mains' = [mains EXCEPT ![i] =
                   IF dirExists \/ made THEN "dir" ELSE "panicked"]
    /\ UNCHANGED <<path, created>>

\* StreamSocket::open(path), given which of its calls fails ("none" for
\* none): bind fails anyway when something is at the path. ok tells its
\* result; entry is what is at the path afterwards: once bind has
\* succeeded the socket is there, whatever follows.
StreamSocket_open(entry, i, fails) ==
    IF fails \in {"socket", "fcntl"} THEN [ok |-> FALSE, entry |-> entry]
    ELSE IF fails = "bind" \/ entry.kind # "none" \/ ~dirExists
    THEN [ok |-> FALSE, entry |-> entry]
    ELSE IF fails = "listen"
    THEN [ok |-> FALSE, entry |-> [kind |-> "socket", owner |-> i]]
    ELSE [ok |-> TRUE, entry |-> [kind |-> "socket", owner |-> i]]

\* main: let socket = StreamSocket::open(path).context(..).unwrap()
Open(i, fails) ==
    /\ UNCHANGED exceptSetup
    /\ mains[i] = "dir"
    /\ LET res == StreamSocket_open(path, i, fails) IN
       /\ path' = res.entry
       /\ mains' = [mains EXCEPT ![i] = IF res.ok THEN "serving" ELSE "panicked"]
       /\ created' = IF res.ok
                     THEN created \cup {Descriptor("StreamSocket::open", stream_open_flags)}
                     ELSE created
    /\ UNCHANGED dirExists

\* UnlinkOnDrop::drop: remove_file(&self.path), a failure only warned of
UnlinkOnDrop_drop(entry) == remove_file(entry).entry

\* A serving process panics in its loop; the unwinding drops the listening
\* socket: its descriptor is closed and its path unlinked.
Die(i) ==
    /\ UNCHANGED exceptSetup
    /\ mains[i] = "serving"
    /\ path' = UnlinkOnDrop_drop(path)
    /\ mains' = [mains EXCEPT ![i] = "dropped"]
    /\ UNCHANGED <<dirExists, created>>

\* the other calls that create socket descriptors
CreatingCalls ==
    {Descriptor("StreamChannel::open", stream_open_flags),
     Descriptor("StreamSocket::accept", accept_flags),
     Descriptor("SeqPacketSocket::open", seq_open_flags),
     Descriptor("SeqPacketSocket::accept", accept_flags)}

Create(d) ==
    /\ UNCHANGED exceptSetup
    /\ d \notin created
    /\ created' = created \cup {d}
    /\ UNCHANGED <<path, dirExists, mains>>

SetupNext ==
    \/ \E kind \in {"file", "socket"} : Litter(kind)
    \/ \E i \in 1..MaxServers : FreePath(i)
    \/ \E i \in 1..MaxServers, made \in BOOLEAN : EnsureDir(i, made)
    \/ \E i \in 1..MaxServers,
          fails \in {"none", "socket", "fcntl", "bind", "listen"} : Open(i, fails)
    \/ \E i \in 1..MaxServers : Die(i)
    \/ \E d \in CreatingCalls : Create(d)

Init == StreamInit /\ ServerInit /\ RecordInit /\ SetupInit

\* Receives with kernel flags, on either transport. A run uses one of the
\* two channels: the stream channel with the flags recvmsg can report on
\* it, or the record channel.
StreamFlagSets ==
    {{}, {"MSG_TRUNC"}, {"MSG_ERRQUEUE"}, {"MSG_CTRUNC"}, {"MSG_TRUNC", "MSG_CTRUNC"}}

StreamIdle == tx.writes = 0
RecordIdle == recQueue = <<>> /\ recRcvd = <<>>

FlagNext ==
    \/ /\ RecordIdle
       /\ \E len \in PayloadLens, nfds \in FdCounts : WritePacket(len, nfds, "all")
    \/ /\ RecordIdle
       /\ \E r \in recvmsg_results(wire, wireFds, FALSE, StreamFlagSets) :
             ReadPackets(r)
    \/ /\ StreamIdle
       /\ \E len \in PayloadLens \ {0}, flags \in RecordFlagSets :
             RecordSend(len, flags)
    \/ /\ StreamIdle
       /\ recQueue # <<>>
       /\ \E r \in record_recvmsg_results(recQueue) : RecordRead(r)

\* The end of the stream, on either transport. A run uses one of the two
\* channels; its peer sends and then shuts its end down (close, or
\* shutdown(SHUT_WR)), after which a receive that finds nothing queued
\* returns 0.
StreamShutdown ==
    /\ UNCHANGED exceptStream
    /\ tx.status = "running"
    /\ tx' = [tx EXCEPT !.status = "closed"]
    /\ UNCHANGED <<wire, wireFds, rx, read_buffer, sent, returned, rcvdBytes,
                   rcvdFds, lastRead>>

\* the end of the record channel's queue: what recvmsg returns once the
\* peer has shut down and every part before it has been received
EndOfRecords == RecvResult(0, <<>>, <<>>, {})

RecordPeerGone == recQueue # <<>> /\ recQueue[Len(recQueue)] = EndOfRecords

RecordShutdown ==
    /\ UNCHANGED exceptRecord
    /\ rec.status = "running"
    /\ ~RecordPeerGone
    /\ recQueue' = Append(recQueue, EndOfRecords)
    /\ UNCHANGED <<rec, recRcvd>>

EofRecordIdle == RecordIdle /\ rec.last = "none"
EofStreamIdle == StreamIdle /\ tx.status = "running" /\ lastRead = NoRead

EofNext ==
    \/ /\ EofRecordIdle
       /\ \E len \in PayloadLens, nfds \in FdCounts : WritePacket(len, nfds, "all")
    \/ /\ EofRecordIdle
       /\ StreamShutdown
    \/ /\ EofRecordIdle
       /\ \E r \in recvmsg_results(wire, wireFds, tx.status = "closed", {{}}) :
             ReadPackets(r)
    \/ /\ EofStreamIdle
       /\ ~RecordPeerGone
       /\ \E len \in PayloadLens \ {0}, flags \in {{}, {"MSG_EOR"}} :
             RecordSend(len, flags)
    \/ /\ EofStreamIdle
       /\ RecordShutdown
    \/ /\ EofStreamIdle
       /\ \E r \in record_recvmsg_results(recQueue) : RecordRead(r)

\* ----------------------------------------------------------- specifications

StreamSpec == Init /\ [][StreamNext]_vars
WriteSpec == Init /\ [][WriteNext]_vars
ServerSpec == Init /\ [][ServerNext]_vars
LoopSpec == Init /\ [][LoopNext]_vars
RecordSpec == Init /\ [][RecordNext]_vars
FlagSpec == Init /\ [][FlagNext]_vars
SetupSpec == Init /\ [][SetupNext]_vars
EofSpec == Init /\ [][EofNext]_vars

\* The server with its loop running: main never stops calling poll and
\* handling the messages it got; nothing is assumed of the peers.
FairServerSpec == ServerSpec /\ WF_vars(Poll) /\ WF_vars(HandleEvent)

\* ----------------------------------------------------------------- claims

\* C1: stream round trip. Every read_packets call on what write_packet sent
\* returns, and once every sent byte and descriptor has been received, in
\* whatever split, the packets returned are the packets written, payloads
\* and descriptors in the original order.
C1_RoundTrip ==
    /\ ~DrainPanicked
    /\ (rx.status = "running" /\ wire = <<>> /\ wireFds = <<>>) => returned = sent

\* C2: no early or duplicate completion. A drain attempted after any step
\* of feeding a frame returns without a packet while the header, the payload
\* or the descriptors of the frame are incomplete, and returns each frame
\* once: the packets returned so far are the first written packets, no more
\* of them than have arrived whole.
C2_NoEarlyOrDuplicate ==
    /\ rx.status = "panicked" => rx.why # "slice"
    /\ IsPrefix(returned, sent)
    /\ ArrivedWhole(Len(returned))

\* C3: K frames plus a partial. After a drain of a buffer holding K complete
\* frames and a proper prefix of one more, exactly the K packets have been
\* returned and the buffer holds exactly the bytes (and descriptors) of the
\* partial frame.
C3_DrainKPlusPartial ==
    /\ rx.why # "slice"
    /\ rx.status = "running" =>
         /\ returned = FirstN(sent, CompleteFrames)
         /\ read_buffer.data =
              SliceFrom(rcvdBytes, Len(FramesOf(FirstN(sent, CompleteFrames))))
         /\ read_buffer.fds =
              SliceFrom(rcvdFds, Len(FdsOf(FirstN(sent, CompleteFrames))))

C5_CapabilityBinding ==
    /\ \A i \in 1..Len(returned) :
         LET off == Len(FramesOf(FirstN(returned, i - 1)))
             claimed == Len(FdsOf(FirstN(returned, i - 1)))
             C == rcvdBytes[off + 3] + 256 * rcvdBytes[off + 4]
         IN /\ claimed + C <= Len(rcvdFds)
            /\ returned[i].fds = SubSeq(rcvdFds, claimed + 1, claimed + C)
    /\ Len(FdsOf(returned)) <= Len(rcvdFds)
    /\ read_buffer.fds = SliceFrom(rcvdFds, Len(FdsOf(returned)))

\* the last read_packets call got no control message and returned a packet
\* with descriptors, received by an earlier call, and left others pending
C5_Witness ==
    /\ lastRead.kind = "Ok"
    /\ lastRead.control = <<>>
    /\ \E i \in 1..Len(lastRead.packets) : lastRead.packets[i].fds # <<>>
    /\ read_buffer.fds # <<>>

\* C6: oversize rejection. write_packet on a payload longer than 65535 bytes
\* or on more than 65535 descriptors ends in a panic with nothing sent; the
\* length field of a frame that was sent is the payload length itself.
C6_OversizeRejected ==
    /\ (tx.lastLen > U16_MAX \/ tx.lastNfds > U16_MAX) =>
         /\ tx.status = "panicked"
         /\ wire = <<>> /\ wireFds = <<>> /\ sent = <<>>
    /\ Len(wire) >= 1 => wire[1] = tx.lastLen % 256
    /\ Len(wire) >= 2 => wire[2] = tx.lastLen \div 256

\* write_packet was called on a payload of 100000 bytes and panicked
C6_Witness ==
    /\ tx.lastLen = 100000
    /\ tx.status = "panicked"
    /\ tx.last = "Packet is too big!"
    /\ wire = <<>>

\* C7 - Per-connection ordering: on every connection, at every moment, the
\* packets the handler has been given so far are the first packets the peer
\* sent on it, in the order sent: none is skipped, repeated or overtaken,
\* whatever the loop cycles and the splits over receive calls were.
C7_PerConnectionOrder ==
    \A c \in 1..Len(conns) : IsPrefix(conns[c].dispatched, conns[c].sent)

\* two packets of one connection dispatched, a frame of it having arrived
\* in parts
C7_Witness ==
    \E c \in 1..Len(conns) : Len(conns[c].dispatched) = 2 /\ conns[c].split

\* C8 - Identity-reuse safety: the assertion after the insert never fails;
\* every table entry sits under the number of its own open descriptor and
\* serves one live connection, and no two live connections have the same
\* descriptor number.
C8_IdentityReuseSafe ==
    /\ srv.why # "assertion failed: old_client_using_fd.is_none()"
    /\ \A k \in DOMAIN clients :
         /\ clients[k].fd = k
         /\ k \in openFds
         /\ conns[clients[k].cid].state = "open"
         /\ conns[clients[k].cid].fd = k
    /\ \A c1, c2 \in 1..Len(conns) :
         (/\ conns[c1].state = "open" /\ conns[c2].state = "open"
          /\ conns[c1].fd = conns[c2].fd) => c1 = c2

\* a client is in the table under the descriptor number an earlier
\* connection, torn down since, had
C8_Witness ==
    \E k \in DOMAIN clients : \E c \in 1..Len(conns) :
        /\ c # clients[k].cid
        /\ conns[c].state = "closed"
        /\ conns[c].fd = k
        /\ srv.status = "running"

\* the step of the loop that handles a Broken or Hup message on a client key
C9_TeardownStep ==
    /\ srv.status = "running"
    /\ events # <<>>
    /\ events' = Tail(events)
    /\ Head(events).msg \in {"Broken", "Hup"}
    /\ Head(events).key.kind = "Client"

C9_TeardownEffect ==
    LET raw_fd == Head(events).key.fd IN
    IF raw_fd \in DOMAIN clients
    THEN /\ DOMAIN clients' = DOMAIN clients \ {raw_fd}
         /\ \A k \in DOMAIN clients' : clients'[k] = clients[k]
         /\ DOMAIN interest' = DOMAIN interest \ {raw_fd}
         /\ openFds' = openFds \ {raw_fd}
         /\ syscalls' = <<Sys("epoll_ctl_del", raw_fd), Sys("close", raw_fd)>>
         /\ srv' = srv
    ELSE /\ clients' = clients
         /\ interest' = interest
         /\ openFds' = openFds
         /\ syscalls' = <<>>
         /\ srv' = srv

\* C9 - Teardown on Broken/Hup: handling a Broken or Hup message for a client
\* key in the table removes that entry and no other, takes its descriptor
\* off the interest list and then closes it; for a key not in the table the
\* table, the interest list and the open descriptors stay as they are.
C9_Teardown == [][C9_TeardownStep => C9_TeardownEffect]_vars

\* a client has just been torn down: deregistered, then closed, and gone
\* from the table
C9_Witness ==
    \E fd \in ClientFdNumbers :
        /\ syscalls = <<Sys("epoll_ctl_del", fd), Sys("close", fd)>>
        /\ fd \notin DOMAIN clients
        /\ fd \notin DOMAIN interest
        /\ srv.status = "running"

\* the messages of a list that are on the key
RECURSIVE MessagesOn(_, _)
MessagesOn(msgs, key) ==
    IF msgs = <<>> THEN {}
    ELSE (IF Head(msgs).key = key THEN {Head(msgs).msg} ELSE {})
         \cup MessagesOn(Tail(msgs), key)

\* C10 - Multiple conditions per wakeup: when poll has returned, for every
\* kernel event it got with more than one of EPOLLIN, EPOLLERR and EPOLLHUP
\* set, its messages on that event's key include Ready if EPOLLIN is set,
\* Broken if EPOLLERR is set, and Hup if EPOLLHUP is set without EPOLLERR.
C10_OnePerCondition ==
    \A i \in 1..Len(lastWait) :
        LET event == lastWait[i]
            key == PollId_try_from_u64(event.u64).key
            conditions == event.flags \cap {"EPOLLIN", "EPOLLERR", "EPOLLHUP"}
            got == MessagesOn(events, key)
        IN Cardinality(conditions) > 1 =>
             /\ "EPOLLIN" \in conditions => "Ready" \in got
             /\ "EPOLLERR" \in conditions => "Broken" \in got
             /\ ("EPOLLHUP" \in conditions /\ "EPOLLERR" \notin conditions)
                   => "Hup" \in got

\* the messages the three conditions of a kernel event call for
ConditionsOf(flags) ==
    (IF "EPOLLIN" \in flags THEN {"Ready"} ELSE {})
    \cup (IF "EPOLLERR" \in flags THEN {"Broken"} ELSE {})
    \cup (IF "EPOLLHUP" \in flags /\ "EPOLLERR" \notin flags THEN {"Hup"} ELSE {})

\* C11 - Condition mapping: when poll has returned, for every kernel event
\* it got from the wait, its messages on that event's key are exactly
\* Ready if EPOLLIN is set, Broken if EPOLLERR is set, and Hup if EPOLLHUP
\* is set and EPOLLERR is not.
C11_ConditionMapping ==
    \A i \in 1..Len(lastWait) :
        MessagesOn(events, PollId_try_from_u64(lastWait[i].u64).key)
            = ConditionsOf(lastWait[i].flags)

\* the step of the loop that handles a Ready message whose accept or
\* recvmsg call finds nothing to take and returns the would-block error:
\* no connection waits on the listening socket, or the client's socket has
\* no byte queued and its peer is still there
C12_WouldBlockStep ==
    /\ srv.status = "running"
    /\ events # <<>>
    /\ events' = Tail(events)
    /\ Head(events).msg = "Ready"
    /\ \/ Head(events).key.kind = "Socket" /\ backlog = <<>>
       \/ /\ Head(events).key.kind = "Client"
          /\ Head(events).key.fd \in DOMAIN clients
          /\ \E c \in ConnsOfFd(clients[Head(events).key.fd].fd) :
                conns[c].wire = <<>> /\ conns[c].peer = "running"

\* C12 - Would-block is benign: a Ready message whose accept or
\* read_packets call returns the would-block error leaves the server
\* running and the connection table and the registrations as they were.
C12_WouldBlockBenign ==
    [][C12_WouldBlockStep =>
         /\ srv'.status = "running"
         /\ clients' = clients
         /\ interest' = interest]_vars

\* the n-th packet of connection c is a request, its frame has been
\* written whole to a connection that is not closed, and it has not been
\* dispatched
C13_Pending(c, n) ==
    /\ c <= Len(conns)
    /\ conns[c].state # "closed"
    /\ n <= Len(conns[c].sent)
    /\ \A k \in 1..n : try_into_request(conns[c].sent[k]).ok
    /\ Len(conns[c].dispatched) < n

C13_Dispatched(c, n) == c <= Len(conns) /\ Len(conns[c].dispatched) >= n

\* C13 - Connection independence: every request whose frame a connection
\* has pending is eventually dispatched to the handler, whatever the other
\* connections have queued or send.
C13_Independence ==
    \A c \in 1..MaxConns : \A n \in 1..MaxRequests :
        C13_Pending(c, n) ~> C13_Dispatched(c, n)

\* the server has died on a payload that is no request while another
\* connection, all of whose packets are requests, has one pending whole
C13_Blocked ==
    /\ srv.why = "Failed to parse packet as request!"
    /\ \E c \in 1..Len(conns) : \E n \in 1..MaxRequests :
         /\ C13_Pending(c, n)
         /\ \A k \in 1..Len(conns[c].sent) : try_into_request(conns[c].sent[k]).ok

\* connection c is accepted and its peer has closed it or it has an error
C14_PeerGone(c) ==
    /\ c <= Len(conns)
    /\ conns[c].state = "open"
    /\ conns[c].peer \in {"closed", "reset"}

\* connection c is Closed: the server's descriptor is released, and no
\* entry of the table and no registration is left for it
C14_Closed(c) ==
    /\ c <= Len(conns)
    /\ conns[c].state = "closed"
    /\ \A k \in DOMAIN clients : clients[k].cid # c
    /\ conns[c].fd \in DOMAIN interest =>
          \E k \in DOMAIN clients : clients[k].fd = conns[c].fd

\* C14 - Connection lifecycle liveness: an accepted connection is in the
\* table and registered, and once its peer has closed it or its socket has
\* an error, the loop eventually closes it: entry removed, descriptor
\* deregistered and released.
C14_Lifecycle ==
    /\ [](\A c \in 1..Len(conns) : conns[c].state = "open" =>
            /\ conns[c].fd \in DOMAIN clients
            /\ conns[c].fd \in DOMAIN interest)
    /\ \A c \in 1..MaxConns : C14_PeerGone(c) ~> C14_Closed(c)

\* C15 - Single send attempt: after write_packet on a packet within the
\* limits (payload of L <= 65535 bytes, at most 32 descriptors), what has
\* gone to the peer is what its one sendmsg call transmitted, a prefix of
\* the 4+L bytes of the frame: the call succeeded exactly when all 4+L
\* went; it returned the error when sendmsg failed, nothing having gone;
\* and when a part went it ended fatally, the remainder never sent.
C15_SingleSend ==
    (/\ tx.writes = 1
     /\ tx.lastLen <= U16_MAX
     /\ tx.lastNfds <= SCM_RIGHTS_ROOM) =>
        /\ tx.last \in {"Ok", "Err",
                        "Failed to transmit a packet within a single syscall!"}
        /\ Len(wire) <= PACKET_HEADER_LEN + tx.lastLen
        /\ tx.last = "Ok" <=> Len(wire) = PACKET_HEADER_LEN + tx.lastLen
        /\ tx.last = "Ok" <=> Len(sent) = 1
        /\ tx.last = "Ok" => wire = FrameOf(sent[1]) /\ tx.status = "running"
        /\ tx.last = "Err" <=> (wire = <<>> /\ tx.status = "running")
        /\ tx.last = "Failed to transmit a packet within a single syscall!"
              <=> (tx.status = "panicked" /\ Len(wire) >= 1)

\* sendmsg took 5 of the 6 bytes of a frame and write_packet ended fatally
C15_Witness ==
    /\ tx.writes = 1
    /\ tx.lastLen = 2
    /\ Len(wire) = PACKET_HEADER_LEN + 1
    /\ tx.status = "panicked"
    /\ tx.last = "Failed to transmit a packet within a single syscall!"

\* The records a list of received parts makes up: a part with MSG_EOR ends
\* a record. done are the records ended so far, acc the bytes of the one
\* being received.
RECURSIVE RecordsOf(_, _, _)
RecordsOf(parts, done, acc) ==
    IF parts = <<>> THEN [records |-> done, pending |-> acc]
    ELSE LET bytes == acc \o Head(parts).bytes IN
         IF "MSG_EOR" \in Head(parts).flags
         THEN RecordsOf(Tail(parts), Append(done, [data |-> bytes]), <<>>)
         ELSE RecordsOf(Tail(parts), done, bytes)

C16_NoFatalFlag ==
    \A i \in 1..Len(recRcvd) :
        recRcvd[i].flags \cap {"MSG_TRUNC", "MSG_CTRUNC", "MSG_ERRQUEUE"} = {}

\* C16 - Record framing: as long as no receive has reported a fatal flag,
\* the reader of the record channel is alive, the packets it has returned
\* are the records whose last part (the one with the end-of-record flag)
\* has been received, each once and each the concatenation of its parts,
\* and its pending packet holds the parts received of the record not yet
\* ended.
C16_RecordFraming ==
    C16_NoFatalFlag =>
        /\ rec.status = "running"
        /\ rec.returned = RecordsOf(recRcvd, <<>>, <<>>).records
        /\ rec.read_buffer.data = RecordsOf(recRcvd, <<>>, <<>>).pending

\* truncated payload, discarded control data, error-queue notification
C17_Fatal == {"MSG_TRUNC", "MSG_CTRUNC", "MSG_ERRQUEUE"}

\* after a receive that reported one of the three: the reader is dead on
\* it and that receive returned no packet, on the stream channel and on
\* the record channel
C17_Terminated ==
    /\ lastRead.flags \cap C17_Fatal # {} =>
         /\ rx.status = "panicked"
         /\ rx.why \in C17_Fatal
         /\ lastRead.packets = <<>>
    /\ \A i \in 1..Len(recRcvd) : recRcvd[i].flags \cap C17_Fatal # {} =>
         /\ i = Len(recRcvd)
         /\ rec.status = "panicked"
         /\ rec.why \in C17_Fatal

\* the receive that reports one delivers no packet, and none is delivered
\* after it
C17_NothingDelivered ==
    /\ (lastRead.flags \cup lastRead'.flags) \cap C17_Fatal # {} =>
          returned' = returned
    /\ ((\E i \in 1..Len(recRcvd) : recRcvd[i].flags \cap C17_Fatal # {})
        \/ (\E i \in 1..Len(recRcvd') : recRcvd'[i].flags \cap C17_Fatal # {})) =>
          rec'.returned = rec.returned

\* C17 - Failure policy on kernel flags: a receive that reports MSG_TRUNC,
\* MSG_CTRUNC or MSG_ERRQUEUE, on the stream or on the record channel,
\* returns no packet and ends the reader: no packet is delivered by that
\* receive or at any time after it.
C17_FlagsFatal == []C17_Terminated /\ [][C17_NothingDelivered]_vars

\* the stream reader returned a packet, then a receive brought the whole
\* frame of the next one and reported discarded control data: the reader
\* is dead and that packet was not returned
C17_Witness ==
    /\ rx.status = "panicked"
    /\ rx.why = "MSG_CTRUNC"
    /\ lastRead.flags = {"MSG_CTRUNC"}
    /\ wire = <<>>
    /\ Len(sent) = 2
    /\ Len(returned) = 1
    /\ read_buffer.data = FrameOf(sent[2])


\* a server process holds its listening socket value
C18_Alive(i) == mains[i] = "serving"

\* process i binds: its open succeeds in this step
C18_Binds(i) == mains[i] = "dir" /\ mains'[i] = "serving"

\* the listening socket of process i is destroyed in this step
C18_Destroyed(i) == mains[i] = "serving" /\ mains'[i] = "dropped"

\* C18: nothing is at the socket path when the server binds, whatever was
\* there having been removed; while a listening socket value is alive the
\* path entry exists; when the listening socket is destroyed the path
\* entry is gone.
C18_PathLifecycle ==
    /\ [][\A i \in 1..MaxServers :
            C18_Binds(i) => path.kind = "none" /\ path'.kind = "socket"]_vars
    /\ [](\A i \in 1..MaxServers : C18_Alive(i) => path.kind # "none")
    /\ [][\A i \in 1..MaxServers :
            C18_Destroyed(i) => path'.kind = "none"]_vars

\* C18 for a server that is the only one started on the path
C18_AloneLifecycle ==
    /\ [](\A i \in 1..MaxServers :
            (C18_Alive(i) /\ \A j \in 1..MaxServers \ {i} : mains[j] = "start")
            => path.kind # "none")
    /\ [][\A i \in 1..MaxServers :
            C18_Destroyed(i) => path'.kind = "none"]_vars


\* C19: every socket descriptor a creating call has returned (open of the
\* listening socket in its stream and its record variant, connect, accept)
\* has the non-blocking flag and the close-on-exec flag set.
C19_DescriptorFlags ==
    \A d \in created : {"O_NONBLOCK", "FD_CLOEXEC"} \subseteq d.flags

\* C19 for the calls other than the open of the record variant
C19_StreamDescriptorFlags ==
    \A d \in created :
        d.by # "SeqPacketSocket::open"
        => {"O_NONBLOCK", "FD_CLOEXEC"} \subseteq d.flags


\* the loop is about to call poll: no message of the last batch is left
C20_IterationStart == srv.status = "running" /\ events = <<>>

\* C20: at the start of every iteration of the event loop the client
\* descriptors registered with the epoll are the keys of the connection
\* table, every entry's key is the descriptor number of its channel, and
\* that descriptor is open.
C20_TableAgrees ==
    C20_IterationStart =>
        /\ DOMAIN interest \ {SocketFd} = DOMAIN clients
        /\ \A raw_fd \in DOMAIN clients :
             /\ clients[raw_fd].fd = raw_fd
             /\ raw_fd \in openFds

\* an iteration starts with a client in the table after another client
\* has been torn down
C20_Witness ==
    /\ C20_IterationStart
    /\ DOMAIN clients # {}
    /\ \E c \in 1..Len(conns) : conns[c].state = "closed"
    /\ \E c \in 1..Len(conns) :
         conns[c].state = "open" /\ conns[c].fd \in DOMAIN clients


\* the last write_packet call handed to sendmsg a slice of 4 + L bytes: L
\* little-endian in bytes 0..1, C little-endian in bytes 2..3, the payload
\* after them, and the drain reads L and C back from those positions
C21_Layout ==
    LET slice == tx.lastCall.slice
        L == tx.lastLen
        C == tx.lastNfds
    IN /\ tx.lastCall.issued
       /\ Len(slice) = 4 + L
       /\ slice[1] = L % 256 /\ slice[2] = L \div 256
       /\ slice[3] = C % 256 /\ slice[4] = C \div 256
       /\ SubSeq(slice, 5, 4 + L) = PayloadOf(tx.writes - 1, L)
       /\ packet_length_of(slice) = L
       /\ num_fds_of(slice) = C

C22_DrainTotal ==
    /\ ~(rx.status = "panicked" /\ rx.why = "slice")
    /\ lastRead.kind # "Panic" \/ lastRead.flags # {}
    /\ Len(rcvdBytes) - Len(read_buffer.data)
         >= PACKET_HEADER_LEN * Len(returned)

\* C22 without the panic: the bytes taken off the buffer are at least 4 for
\* each packet returned
C22_EachPacketTakesHeader ==
    Len(rcvdBytes) - Len(read_buffer.data) >= PACKET_HEADER_LEN * Len(returned)


\* the read_packets call of this step got 0 from its receive
C23_StreamEofRead == lastRead'.eof /\ tx' = tx /\ rx.status = "running"

\* the read_packet call of this step got 0 from its receive
C23_RecordEofRead ==
    /\ recQueue # <<>> /\ Head(recQueue) = EndOfRecords
    /\ recQueue' = recQueue
    /\ rec' # rec

\* C23: when the receive of read_packets returns 0 because the peer has
\* shut down, read_packets returns Ok with the packets drainable from the
\* buffer, which it leaves as it was, none of them when no complete frame
\* was buffered, and no error: what an empty read returns. The record
\* variant returns the connection-reset error on the same receive.
C23_EndOfStream ==
    /\ [](lastRead.eof =>
            /\ lastRead.kind = "Ok"
            /\ lastRead.packets = drain_packets(read_buffer).packets
            /\ lastRead.packets = <<>>
            /\ rx.status = "running")
    /\ [][C23_StreamEofRead =>
            /\ read_buffer' = read_buffer
            /\ returned' = returned \o lastRead'.packets
            /\ rx' = rx]_vars
    /\ [][C23_RecordEofRead =>
            /\ rec'.last = "Err"
            /\ rec'.why = "The peer has performed an orderly shutdown."
            /\ rec'.status = "running"
            /\ rec'.returned = rec.returned]_vars

\* the peer has shut down after a frame that was returned and one that is
\* incomplete in the buffer, and the last read_packets call got 0
C23_Witness ==
    /\ tx.status = "closed"
    /\ wire = <<>>
    /\ lastRead.eof
    /\ lastRead.kind = "Ok"
    /\ returned # <<>>
    /\ read_buffer.data # <<>>

\* the record reader has returned the error for the peer's shutdown
C23_RecordWitness ==
    /\ RecordPeerGone
    /\ rec.last = "Err"
    /\ rec.why = "The peer has performed an orderly shutdown."


\* the kernel events of a list that carry the input flag
RECURSIVE C24_InputEvents(_)
C24_InputEvents(event_list) ==
    IF event_list = <<>> THEN <<>>
    ELSE (IF "EPOLLIN" \in Head(event_list).flags THEN <<Head(event_list)>> ELSE <<>>)
         \o C24_InputEvents(Tail(event_list))

\* poll has just returned the messages events for the kernel events lastWait
C24_Polled == srv.status = "running" /\ lastWait # <<>>

C25_DescriptorLimit ==
    tx.writes >= 1 =>
      /\ tx.lastNfds > SCM_RIGHTS_ROOM =>
           /\ tx.status = "panicked"
           /\ ~tx.lastCall.issued
           /\ wire = <<>> /\ wireFds = <<>> /\ sent = <<>>
      /\ (tx.lastNfds <= SCM_RIGHTS_ROOM /\ tx.lastLen <= U16_MAX) =>
           /\ tx.lastCall.issued
           /\ Len(tx.lastCall.rights) = tx.lastNfds
           /\ num_fds_of(tx.lastCall.slice) = Len(tx.lastCall.rights)
           /\ Flatten(wireFds) \in {<<>>, tx.lastCall.rights}

\* a packet of 33 descriptors: write_packet has panicked and nothing is on
\* the wire
C25_Witness ==
    /\ tx.lastNfds = SCM_RIGHTS_ROOM + 1
    /\ tx.lastLen <= U16_MAX
    /\ tx.status = "panicked"
    /\ tx.last = "Failed to send file descriptors."
    /\ wire = <<>> /\ wireFds = <<>>

\* a packet of 32 descriptors went out whole, its header count 32
C25_AtLimit ==
    /\ tx.lastNfds = SCM_RIGHTS_ROOM
    /\ tx.last = "Ok"
    /\ num_fds_of(wire) = SCM_RIGHTS_ROOM
    /\ Len(Flatten(wireFds)) = SCM_RIGHTS_ROOM

====
